---- MODULE Spec2Model ----
(***************************************************************************)
(* A model of scripts/cr_transcripts.py: the two HTMLParser subclasses     *)
(* (CRIndexParser, CRTranscriptParser) driven by the tokenizer's callbacks *)
(* and the rendering loop of main().                                       *)
(*                                                                         *)
(* Strings are sequences of one-character strings, so that strip(),        *)
(* the f-string concatenations and the regular expression are computed.    *)
(* An Optional value is <<>> (None) or <<v>> (a value v).                  *)
(***************************************************************************)
EXTENDS Naturals, Sequences, FiniteSets, TLC

\* ------------------------------------------------------------------ bounds

\* The number of text-data events a transcript parse consumes into a field.
MaxConsumed == 4

\* The nesting depth of <main> elements in an index document.
MaxDepth == 2

\* ------------------------------------------------------------ Python values

\* Python's None for an Optional[str], and a present value.
Nothing == <<>>
Some(v) == <<v>>

\* str.strip() removes these from both ends.
Whitespace == {" ", "\n", "\t"}

RECURSIVE lstrip(_)
lstrip(s) ==
    IF s = <<>> THEN <<>>
    ELSE IF Head(s) \in Whitespace THEN lstrip(Tail(s))
    ELSE s

RECURSIVE rstrip(_)
rstrip(s) ==
    IF s = <<>> THEN <<>>
    ELSE IF s[Len(s)] \in Whitespace THEN rstrip(SubSeq(s, 1, Len(s) - 1))
    ELSE s

\* data.strip()
strip(s) == rstrip(lstrip(s))

\* d[k] = v on a dict d (a function from keys to values).
SetItem(d, k, v) == [x \in (DOMAIN d) \cup {k} |-> IF x = k THEN v ELSE d[x]]

\* ------------------------------------------------------------------- state

VARIABLES
    in_lines,      \* CRTranscriptParser.in_lines
    lines,         \* CRTranscriptParser.lines: a list of dicts
    process,       \* CRTranscriptParser.process: "None", "name" or "text"
    consumed,      \* history: the text-data events consumed into a field
    lastCall,      \* history: the handler the tokenizer called last
    frozen,        \* history: len(lines) at the latest <strong> open-tag
    seenContainer, \* history: a <div id="lines"> open-tag has been reported
    sinceMarker,   \* history: text-data calls since the latest <strong>/<dd>
                   \* open-tag: 0, 1, or 2 for "two or more, or no such tag yet"
    lastTag,       \* history: the kind of tag of the last tag call of the
                   \* running feed(); "none" before it and once it returned
    raised,        \* the exception that left a handler or main(), if any
    doc,           \* the tokenizer's events still to report, when scripted
    input,         \* history: the scripted document, as its events
    objs,          \* two CRTranscriptParser objects: in_lines, process and
                   \* the reference held by self.lines
    heap,          \* the list objects, by reference
    docs,          \* the events still to report to each of the two parsers
    inputs,        \* history: the two documents, as their events
    update,        \* main: args.update
    files,         \* main: the names of the files in args.data_dir
    mpc,           \* main: where the driver is
    idoc,          \* main: the events of index.html still to be reported
    available_files,
    present_files,
    to_download,
    todo,          \* main: the filenames the download loop has yet to visit
    pending,       \* main: the paths the processing loop has yet to visit
    outputs,       \* main: the files written to args.output_dir
    log,           \* history: the downloads and the parses, in order
    include_names, \* args.include_names
    pc,            \* main(): "feed", "render" or "done" for the current file
    idx,           \* main(): position of the rendering loop in parser.lines
    out,           \* main(): what has been written to out_f
    in_main,       \* CRIndexParser.in_main
    transcript_files, \* CRIndexParser.transcript_files
    indexCall,     \* history: the CRIndexParser handler call made last
    lastMain,      \* history: the latest main tag: "open", "close" or "none"
    mainDepth      \* history: <main> open-tags not yet closed

hvars == <<consumed, lastCall, frozen, seenContainer, sinceMarker, lastTag>>
tvars == <<in_lines, lines, process, hvars, include_names, pc, idx, out>>
ivars == <<in_main, transcript_files, indexCall, lastMain, mainDepth>>
evars == <<doc, input>>
pvars == <<objs, heap, docs, inputs>>
mvars == <<update, files, mpc, idoc, available_files, present_files,
           to_download, todo, pending, outputs, log>>
ovars == <<pvars, mvars>>
vars == <<tvars, ivars, raised, evars, ovars>>

\* ------------------------------------------------------ CRTranscriptParser

None == "None"

\* No exception has been raised.
NoError == "NoError"

\* The tags and attribute lists the tokenizer reports to the transcript parser.
TTags == {"div", "strong", "dd", "p"}
TAttrs == { <<>>,
            << <<"id", Some("lines")>> >>,
            << <<"id", Some("other")>> >>,
            << <<"id", Nothing>> >>,
            << <<"class", Some("lines")>>, <<"id", Some("lines")>> >> }

\* The text-data chunks the tokenizer reports.
Data == { <<"a">>, <<" ", "b", "\n">>, <<" ">> }

\* ("id", "lines") in attrs
HasIdLines(attrs) == \E i \in 1..Len(attrs) : attrs[i] = <<"id", Some("lines")>>

CRTranscriptParser_init ==
    /\ in_lines = FALSE
    /\ lines = <<>>
    /\ process = None

\* Variant: the markers are not guarded by in_lines.
CRTranscriptParser_handle_starttag_Unguarded(tag, attrs) ==
    IF tag = "div" /\ HasIdLines(attrs) THEN
        /\ in_lines' = TRUE
        /\ UNCHANGED <<lines, process>>
    ELSE IF tag = "strong" THEN
        /\ process' = "name"
        /\ UNCHANGED <<lines, in_lines>>
    ELSE IF tag = "dd" THEN
        /\ process' = "text"
        /\ UNCHANGED <<lines, in_lines>>
    ELSE UNCHANGED <<lines, in_lines, process>>

\* Variant: a tag that is none of the three clears process.
CRTranscriptParser_handle_starttag_Clearing(tag, attrs) ==
    IF tag = "div" /\ HasIdLines(attrs) THEN
        /\ in_lines' = TRUE
        /\ UNCHANGED <<lines, process>>
    ELSE IF tag = "strong" /\ in_lines THEN
        /\ process' = "name"
        /\ UNCHANGED <<lines, in_lines>>
    ELSE IF tag = "dd" /\ in_lines THEN
        /\ process' = "text"
        /\ UNCHANGED <<lines, in_lines>>
    ELSE /\ process' = None
         /\ UNCHANGED <<lines, in_lines>>

CRTranscriptParser_handle_starttag(tag, attrs) ==
    IF tag = "div" /\ HasIdLines(attrs) THEN
        /\ in_lines' = TRUE
        /\ UNCHANGED <<lines, process>>
    ELSE IF tag = "strong" /\ in_lines THEN
        /\ process' = "name"
        /\ UNCHANGED <<lines, in_lines>>
    ELSE IF tag = "dd" /\ in_lines THEN
        /\ process' = "text"
        /\ UNCHANGED <<lines, in_lines>>
    ELSE UNCHANGED <<lines, in_lines, process>>

\* Variant: </div> leaves the lines region.
CRTranscriptParser_handle_endtag_Leaving(tag) ==
    /\ in_lines' = IF tag = "div" THEN FALSE ELSE in_lines
    /\ UNCHANGED <<lines, process>>

\* HTMLParser.handle_endtag is not overridden: nothing happens.
CRTranscriptParser_handle_endtag(tag) ==
    UNCHANGED <<lines, in_lines, process>>

\* Variants of the "text" branch: the fragment replaces the text instead of
\* being joined to it; the text goes to the first dict instead of the last;
\* a text with no dict to go to is kept as a dict of its own.
TextBranch_Overwrite(ls, data) ==
    IF ls = <<>> THEN ls
    ELSE [ls EXCEPT ![Len(ls)] = SetItem(ls[Len(ls)], "text", strip(data))]

TextBranch_First(ls, data) ==
    IF ls = <<>> THEN ls
    ELSE IF "text" \in DOMAIN ls[1]
    THEN [ls EXCEPT ![1] = SetItem(ls[1], "text", ls[1]["text"] \o <<" ">> \o strip(data))]
    ELSE [ls EXCEPT ![1] = SetItem(ls[1], "text", strip(data))]

TextBranch_KeepOrphan(ls, data) ==
    IF ls = <<>> THEN <<[text |-> strip(data)]>>
    ELSE IF "text" \in DOMAIN ls[Len(ls)]
    THEN [ls EXCEPT ![Len(ls)] =
             SetItem(ls[Len(ls)], "text", ls[Len(ls)]["text"] \o <<" ">> \o strip(data))]
    ELSE [ls EXCEPT ![Len(ls)] = SetItem(ls[Len(ls)], "text", strip(data))]

\* The "text" branch: cur_dat is the last dict of lines, or a fresh dict that
\* is dropped when the handler returns.
TextBranch(ls, data) ==
    IF ls = <<>> THEN ls
    ELSE LET cur_dat == ls[Len(ls)] IN
         IF "text" \in DOMAIN cur_dat
         THEN [ls EXCEPT ![Len(ls)] =
                  SetItem(cur_dat, "text", cur_dat["text"] \o <<" ">> \o strip(data))]
         ELSE [ls EXCEPT ![Len(ls)] = SetItem(cur_dat, "text", strip(data))]

\* Variants of the "name" branch: the new dict goes to the front; a name
\* arriving while the last dict has no text replaces that dict's name; a
\* name equal to the last dict's name adds no dict.
NameBranch_SkipRepeat(ls, data) ==
    IF ls # <<>> /\ ls[Len(ls)]["name"] = strip(data) THEN ls
    ELSE Append(ls, [name |-> strip(data)])

NameBranch_Prepend(ls, data) == <<[name |-> strip(data)]>> \o ls

NameBranch_Merge(ls, data) ==
    IF ls # <<>> /\ "text" \notin DOMAIN ls[Len(ls)]
    THEN [ls EXCEPT ![Len(ls)] = SetItem(ls[Len(ls)], "name", strip(data))]
    ELSE Append(ls, [name |-> strip(data)])

\* The "name" branch.
NameBranch(ls, data) == Append(ls, [name |-> strip(data)])

\* `self.lines[-1] if self.lines else {}` evaluates self.lines[-1] only when
\* self.lines is not empty. Variant: it is evaluated always.
ReadsLast_Always(ls) == TRUE

ReadsLast(ls) == ls # <<>>

\* The exception handle_data raises, if any: IndexError from self.lines[-1]
\* on an empty list, KeyError from cur_dat["text"] on a dict with no text.
CRTranscriptParser_handle_data_raises(data) ==
    IF process = "text" /\ ReadsLast(lines) /\ lines = <<>> THEN "IndexError"
    ELSE IF process = "text" /\ lines # <<>>
            /\ "text" \in DOMAIN lines[Len(lines)]
            /\ "text" \notin DOMAIN lines[Len(lines)] THEN "KeyError"
    ELSE NoError

\* Variant: data that strips to the empty string is skipped.
CRTranscriptParser_handle_data_SkipBlank(data) ==
    /\ lines' = IF process # None /\ strip(data) # <<>>
                THEN IF process = "name" THEN NameBranch(lines, data)
                     ELSE IF process = "text" THEN TextBranch(lines, data)
                     ELSE lines
                ELSE lines
    /\ process' = IF strip(data) # <<>> THEN None ELSE process
    /\ UNCHANGED in_lines

\* Variant: process is reset inside `if self.process == "name"` only.
CRTranscriptParser_handle_data_ResetInBranch(data) ==
    /\ lines' = IF process # None
                THEN IF process = "name" THEN NameBranch(lines, data)
                     ELSE IF process = "text" THEN TextBranch(lines, data)
                     ELSE lines
                ELSE lines
    /\ process' = IF process = "name" THEN None ELSE process
    /\ UNCHANGED in_lines

CRTranscriptParser_handle_data(data) ==
    /\ lines' = IF process # None
                THEN IF process = "name" THEN NameBranch(lines, data)
                     ELSE IF process = "text" THEN TextBranch(lines, data)
                     ELSE lines
                ELSE lines
    /\ process' = None
    /\ UNCHANGED in_lines

\* ------------------------------------------------------------ CRIndexParser

CR == <<"c", "r">>
HTML == <<".", "h", "t", "m", "l">>

\* Variant: r"^cr.*\.html$", nothing required between "cr" and ".html".
TRANSCRIPT_RE_match_Star(s) ==
    \E i \in 2..Len(s), e \in {Len(s) - 1, Len(s)} :
        /\ e = Len(s) \/ s[Len(s)] = "\n"
        /\ SubSeq(s, 1, 2) = CR
        /\ \A k \in 3..i : s[k] # "\n"
        /\ i + Len(HTML) = e
        /\ SubSeq(s, i + 1, e) = HTML

\* TRANSCRIPT_RE.match(s) for r"^cr.+\.html$": "cr" at the start, then one or
\* more characters none of which is a newline, then ".html" ending at the end
\* of the string or just before a newline that ends the string.
TRANSCRIPT_RE_match(s) ==
    \E i \in 3..Len(s), e \in {Len(s) - 1, Len(s)} :
        /\ e = Len(s) \/ s[Len(s)] = "\n"
        /\ SubSeq(s, 1, 2) = CR
        /\ \A k \in 3..i : s[k] # "\n"
        /\ i + Len(HTML) = e
        /\ SubSeq(s, i + 1, e) = HTML

\* The href values of the index document's links.
Hrefs == { CR \o <<"1">> \o HTML,
           CR \o <<"2">> \o HTML,
           CR \o HTML,
           CR \o <<"1">> \o HTML \o <<"\n">>,
           CR \o <<"\n">> \o HTML,
           CR \o <<"1">> \o HTML \o <<"x">>,
           <<"x">> \o CR \o <<"1">> \o HTML,
           <<"C", "r", "1">> \o HTML,
           CR \o <<"1", "x", "h", "t", "m", "l">> }

ITags == {"main", "a", "p"}
IAttrs == { <<>>,
            << <<"href", Nothing>> >>,
            << <<"class", Some(CR \o <<"1">> \o HTML)>> >>,
            << <<"href", Some(CR \o HTML)>>, <<"href", Some(CR \o <<"2">> \o HTML)>> >>,
            << <<"href", Some(CR \o <<"2">> \o HTML)>>, <<"href", Some(CR \o HTML)>> >> }
          \cup { << <<"href", Some(h)>> >> : h \in Hrefs }

\* dict(attrs).get(key): the value of the last pair with that key, else None.
AttrGet(attrs, key) ==
    LET at == {i \in 1..Len(attrs) : attrs[i][1] = key} IN
    IF at = {} THEN Nothing
    ELSE attrs[CHOOSE i \in at : \A j \in at : j <= i][2]

CRIndexParser_init ==
    /\ in_main = FALSE
    /\ transcript_files = {}

\* `href is not None and self.TRANSCRIPT_RE.match(href)` calls match only
\* when href is not None.
CallsMatch(href) == href # Nothing

\* The exception handle_starttag raises, if any: TypeError from match(None).
CRIndexParser_handle_starttag_raises(tag, attrs) ==
    IF tag # "main" /\ tag = "a" /\ in_main
       /\ CallsMatch(AttrGet(attrs, "href")) /\ AttrGet(attrs, "href") = Nothing
    THEN "TypeError"
    ELSE NoError

\* Variant: links are collected whether or not in_main is set.
CRIndexParser_handle_starttag_Anywhere(tag, attrs) ==
    IF tag = "main" THEN
        /\ in_main' = TRUE
        /\ UNCHANGED transcript_files
    ELSE IF tag = "a" THEN
        LET href == AttrGet(attrs, "href") IN
        /\ transcript_files' =
              IF href # Nothing /\ TRANSCRIPT_RE_match(href[1])
              THEN transcript_files \cup {href[1]}
              ELSE transcript_files
        /\ UNCHANGED in_main
    ELSE UNCHANGED <<in_main, transcript_files>>

CRIndexParser_handle_starttag(tag, attrs) ==
    IF tag = "main" THEN
        /\ in_main' = TRUE
        /\ UNCHANGED transcript_files
    ELSE IF tag = "a" /\ in_main THEN
        LET href == AttrGet(attrs, "href") IN
        /\ transcript_files' =
              IF href # Nothing /\ TRANSCRIPT_RE_match(href[1])
              THEN transcript_files \cup {href[1]}
              ELSE transcript_files
        /\ UNCHANGED in_main
    ELSE UNCHANGED <<in_main, transcript_files>>

\* Variant: </main> leaves the region only when it closes the outermost <main>.
CRIndexParser_handle_endtag_Nested(tag) ==
    /\ in_main' = IF tag = "main" THEN mainDepth > 1 ELSE in_main
    /\ UNCHANGED transcript_files

CRIndexParser_handle_endtag(tag) ==
    /\ in_main' = IF tag = "main" THEN FALSE ELSE in_main
    /\ UNCHANGED transcript_files

\* HTMLParser.handle_data is not overridden: nothing happens.
CRIndexParser_handle_data ==
    UNCHANGED <<in_main, transcript_files>>

\* ---------------------------------------------------------------- main()

\* Variant: no space after the colon.
RenderName_NoSpace(line) == <<"*", "*">> \o line["name"] \o <<"*", "*", ":">>

RenderName(line) == <<"*", "*">> \o line["name"] \o <<"*", "*", ":", " ">>
RenderText(line) == line["text"] \o <<"\n">>

\* Variant: the speaker prefix is written whatever args.include_names is.
WriteLine_IgnoreFlag(line, names) ==
    (IF "name" \in DOMAIN line THEN RenderName(line) ELSE <<>>)
    \o (IF "text" \in DOMAIN line THEN RenderText(line) ELSE <<>>)

\* Variant: the line break is written for every dict.
WriteLine_AlwaysBreak(line, names) ==
    (IF names /\ "name" \in DOMAIN line THEN RenderName(line) ELSE <<>>)
    \o (IF "text" \in DOMAIN line THEN line["text"] ELSE <<>>) \o <<"\n">>

\* One iteration of `for line in parser.lines`.
WriteLine(line, names) ==
    (IF names /\ "name" \in DOMAIN line THEN RenderName(line) ELSE <<>>)
    \o (IF "text" \in DOMAIN line THEN RenderText(line) ELSE <<>>)

\* The exception an iteration raises, if any: KeyError from line['name'] or
\* line['text'], each read only after `"name" in line` / `"text" in line`.
WriteLine_raises(line, names) ==
    IF \/ (names /\ "name" \in DOMAIN line /\ "name" \notin DOMAIN line)
       \/ ("text" \in DOMAIN line /\ "text" \notin DOMAIN line)
    THEN "KeyError"
    ELSE NoError

\* --------------------------------------------- transcript: the callbacks

\* The kind of tag a call reports.
TagKind(tag, attrs) ==
    IF tag = "div" /\ HasIdLines(attrs) THEN "div#lines"
    ELSE IF tag \in {"strong", "dd"} THEN tag
    ELSE "other"
EndKind(tag) == IF tag = "div" THEN "/div" ELSE "/other"

\* A call of handle_starttag and what the history records of it.
StartTagCall(tag, attrs) ==
    /\ CRTranscriptParser_handle_starttag(tag, attrs)
    /\ frozen' = IF tag = "strong" THEN Len(lines) ELSE frozen
    /\ seenContainer' = (seenContainer \/ (tag = "div" /\ HasIdLines(attrs)))
    /\ sinceMarker' = IF tag \in {"strong", "dd"} THEN 0 ELSE sinceMarker
    /\ lastCall' = "starttag"
    /\ lastTag' = TagKind(tag, attrs)
    /\ UNCHANGED <<consumed, raised>>

EndTagCall(tag) ==
    /\ CRTranscriptParser_handle_endtag(tag)
    /\ lastCall' = "endtag"
    /\ lastTag' = EndKind(tag)
    /\ UNCHANGED <<consumed, frozen, seenContainer, sinceMarker, raised>>

\* A call of handle_data: it raises, and the exception leaves feed() and
\* main(), or it returns.
DataCall(data) ==
    /\ IF CRTranscriptParser_handle_data_raises(data) # NoError
       THEN /\ raised' = CRTranscriptParser_handle_data_raises(data)
            /\ UNCHANGED <<in_lines, lines, process, consumed>>
       ELSE /\ CRTranscriptParser_handle_data(data)
            /\ consumed' = IF process # None
                           THEN Append(consumed, [field |-> process, data |-> data])
                           ELSE consumed
            /\ UNCHANGED raised
    /\ lastCall' = "data"
    /\ sinceMarker' = IF sinceMarker = 0 THEN 1 ELSE 2
    /\ UNCHANGED <<frozen, seenContainer, lastTag>>

TStartTag ==
    /\ pc = "feed" /\ raised = NoError
    /\ \E tag \in TTags, attrs \in TAttrs : StartTagCall(tag, attrs)
    /\ UNCHANGED <<include_names, pc, idx, out, ivars, evars, ovars>>

TEndTag ==
    /\ pc = "feed" /\ raised = NoError
    /\ \E tag \in TTags : EndTagCall(tag)
    /\ UNCHANGED <<include_names, pc, idx, out, ivars, evars, ovars>>

TData ==
    /\ pc = "feed" /\ raised = NoError
    /\ process # None => Len(consumed) < MaxConsumed
    /\ \E data \in Data : DataCall(data)
    /\ UNCHANGED <<include_names, pc, idx, out, ivars, evars, ovars>>

\* parser.feed() returns; out_f is opened and the loop over parser.lines starts.
FeedDone ==
    /\ pc = "feed" /\ raised = NoError
    /\ doc = <<>>
    /\ pc' = "render"
    /\ idx' = 1
    /\ out' = <<>>
    /\ lastTag' = "none"
    /\ UNCHANGED <<in_lines, lines, process, consumed, lastCall, frozen,
                   seenContainer, sinceMarker, include_names, ivars,
                   raised, evars, ovars>>

RenderStep ==
    /\ pc = "render" /\ raised = NoError
    /\ idx <= Len(lines)
    /\ IF WriteLine_raises(lines[idx], include_names) # NoError
       THEN /\ raised' = WriteLine_raises(lines[idx], include_names)
            /\ UNCHANGED <<out, idx>>
       ELSE /\ out' = out \o WriteLine(lines[idx], include_names)
            /\ idx' = idx + 1
            /\ UNCHANGED raised
    /\ UNCHANGED <<in_lines, lines, process, hvars, include_names, pc, ivars,
                   evars, ovars>>

RenderDone ==
    /\ pc = "render" /\ raised = NoError
    /\ idx > Len(lines)
    /\ pc' = "done"
    /\ UNCHANGED <<in_lines, lines, process, hvars, include_names, idx, out,
                   ivars, raised, evars, ovars>>

\* ------------------------------------------------- a scripted transcript

\* The events of a document's elements, as the tokenizer reports them.
OpenTag(tag, attrs) == [op |-> "starttag", tag |-> tag, attrs |-> attrs]
CloseTag(tag) == [op |-> "endtag", tag |-> tag]
TextData(data) == [op |-> "data", data |-> data]

ContainerElement == <<OpenTag("div", << <<"id", Some("lines")>> >>)>>
NameElement(s) == <<OpenTag("strong", <<>>), TextData(s), CloseTag("strong")>>
TextElement(s) == <<OpenTag("dd", <<>>), TextData(s), CloseTag("dd")>>

Matt == <<"M", "a", "t", "t">>
Laura == <<"L", "a", "u", "r", "a">>
WelcomeBack == <<"W", "e", "l", "c", "o", "m", "e", " ", "b", "a", "c", "k", ".">>
Thanks == <<"T", "h", "a", "n", "k", "s", "!">>
LetsGo == <<"L", "e", "t", "'", "s", " ", "g", "o", ".">>

\* The document of the example, element by element.
ExampleElements ==
    << ContainerElement, NameElement(Matt), TextElement(WelcomeBack),
       NameElement(Laura), TextElement(Thanks), TextElement(LetsGo) >>

\* The events of the elements of els whose position is in keep, in order.
RECURSIVE EventsOf(_, _, _)
EventsOf(els, keep, n) ==
    IF n = 0 THEN <<>>
    ELSE EventsOf(els, keep, n - 1) \o (IF n \in keep THEN els[n] ELSE <<>>)

ExampleDoc == EventsOf(ExampleElements, 1..Len(ExampleElements), Len(ExampleElements))

\* The example and the documents left when some of its elements are missing.
ExampleDocs ==
    { EventsOf(ExampleElements, keep, Len(ExampleElements)) :
        keep \in SUBSET (1..Len(ExampleElements)) }

\* parser.feed(): the tokenizer reports the next event of the document.
XFeed ==
    /\ pc = "feed" /\ raised = NoError
    /\ doc # <<>>
    /\ LET ev == Head(doc) IN
       IF ev.op = "starttag" THEN StartTagCall(ev.tag, ev.attrs)
       ELSE IF ev.op = "endtag" THEN EndTagCall(ev.tag)
       ELSE DataCall(ev.data)
    /\ doc' = Tail(doc)
    /\ UNCHANGED <<include_names, pc, idx, out, ivars, input, ovars>>

\* ------------------------------------------- two parsers, side by side

\* The handlers as functions of the object they are called on: self is the
\* object's in_lines and process, ls the list self.lines refers to.
Self_handle_starttag(self, tag, attrs) ==
    IF tag = "div" /\ HasIdLines(attrs) THEN [self EXCEPT !.in_lines = TRUE]
    ELSE IF tag = "strong" /\ self.in_lines THEN [self EXCEPT !.process = "name"]
    ELSE IF tag = "dd" /\ self.in_lines THEN [self EXCEPT !.process = "text"]
    ELSE self

Self_handle_data(self, data) == [self EXCEPT !.process = None]

Self_handle_data_lines(self, ls, data) ==
    IF self.process # None
    THEN IF self.process = "name" THEN NameBranch(ls, data)
         ELSE IF self.process = "text" THEN TextBranch(ls, data)
         ELSE ls
    ELSE ls

\* The fields __init__ sets, but for lines.
NewSelf == [in_lines |-> FALSE, process |-> None]

\* parser.feed(events) on a parser in state self whose list is ls: the list
\* when every event has been reported.
RECURSIVE FeedAll(_, _, _)
FeedAll(self, ls, events) ==
    IF events = <<>> THEN ls
    ELSE LET ev == Head(events) IN
         IF ev.op = "starttag"
         THEN FeedAll(Self_handle_starttag(self, ev.tag, ev.attrs), ls, Tail(events))
         ELSE IF ev.op = "endtag"
         THEN FeedAll(self, ls, Tail(events))
         ELSE FeedAll(Self_handle_data(self, ev.data),
                      Self_handle_data_lines(self, ls, ev.data), Tail(events))

\* CRTranscriptParser() followed by feed(events), alone: parser.lines.
ParseAlone(events) == FeedAll(NewSelf, <<>>, events)

Parsers == {1, 2}

\* Variant: lines is one list of the class, shared by its objects.
FreshList_Shared(p) == 1

\* `self.lines = []` in __init__: a new list for each object.
FreshList(p) == p

\* No pair of parsers has been constructed.
NoPair ==
    /\ objs = <<>>
    /\ heap = <<>>
    /\ docs = <<>>
    /\ inputs = <<>>

\* Two parsers constructed, each with a document to be fed.
PairInit ==
    /\ objs = [p \in Parsers |-> [in_lines |-> FALSE, process |-> None,
                                  lines |-> FreshList(p)]]
    /\ heap = [r \in Parsers |-> <<>>]
    /\ inputs \in [Parsers -> ExampleDocs]
    /\ docs = inputs

\* The tokenizer of parser p reports its next event.
PFeed(p) ==
    /\ docs[p] # <<>>
    /\ LET ev == Head(docs[p])
           self == [in_lines |-> objs[p].in_lines, process |-> objs[p].process]
           ref == objs[p].lines
           new == IF ev.op = "starttag" THEN Self_handle_starttag(self, ev.tag, ev.attrs)
                  ELSE IF ev.op = "endtag" THEN self
                  ELSE Self_handle_data(self, ev.data)
       IN /\ objs' = [objs EXCEPT ![p] = [in_lines |-> new.in_lines,
                                          process |-> new.process,
                                          lines |-> ref]]
          /\ heap' = IF ev.op = "data"
                     THEN [heap EXCEPT ![ref] = Self_handle_data_lines(self, heap[ref], ev.data)]
                     ELSE heap
    /\ docs' = [docs EXCEPT ![p] = Tail(docs[p])]
    /\ UNCHANGED <<tvars, ivars, raised, evars, inputs, mvars>>

\* ---------------------------------------------------- index: the callbacks

NoCall == [op |-> "none", tag |-> "", attrs |-> <<>>]

\* One call of handle_starttag, with what the call leaves behind.
IStartTagCall(tag, attrs) ==
    /\ lastMain' = IF tag = "main" THEN "open" ELSE lastMain
    /\ mainDepth' = IF tag = "main" THEN mainDepth + 1 ELSE mainDepth
    /\ IF CRIndexParser_handle_starttag_raises(tag, attrs) # NoError
       THEN /\ raised' = CRIndexParser_handle_starttag_raises(tag, attrs)
            /\ UNCHANGED <<in_main, transcript_files>>
       ELSE /\ CRIndexParser_handle_starttag(tag, attrs)
            /\ UNCHANGED raised
    /\ indexCall' = [op |-> "starttag", tag |-> tag, attrs |-> attrs]

\* One call of handle_endtag.
IEndTagCall(tag) ==
    /\ CRIndexParser_handle_endtag(tag)
    /\ indexCall' = [op |-> "endtag", tag |-> tag, attrs |-> <<>>]
    /\ lastMain' = IF tag = "main" THEN "close" ELSE lastMain
    /\ mainDepth' = IF tag = "main" /\ mainDepth > 0
                    THEN mainDepth - 1 ELSE mainDepth
    /\ UNCHANGED raised

\* One call of handle_data.
IDataCall ==
    /\ CRIndexParser_handle_data
    /\ indexCall' = [op |-> "data", tag |-> "", attrs |-> <<>>]
    /\ UNCHANGED <<lastMain, mainDepth, raised>>

IStartTag ==
    /\ raised = NoError
    /\ \E tag \in ITags, attrs \in IAttrs :
          /\ tag = "main" => mainDepth < MaxDepth
          /\ IStartTagCall(tag, attrs)
    /\ UNCHANGED <<tvars, evars, ovars>>

IEndTag ==
    /\ raised = NoError
    /\ \E tag \in ITags : IEndTagCall(tag)
    /\ UNCHANGED <<tvars, evars, ovars>>

IData ==
    /\ raised = NoError
    /\ IDataCall
    /\ UNCHANGED <<tvars, evars, ovars>>

IndexInit ==
    /\ CRIndexParser_init
    /\ indexCall = NoCall
    /\ lastMain = "none"
    /\ mainDepth = 0

\* ------------------------------------------------------- main: the driver

Cr1Html == CR \o <<"1">> \o HTML
Cr2Html == CR \o <<"2">> \o HTML
CrHtml == CR \o HTML
IndexHtml == <<"i", "n", "d", "e", "x">> \o HTML

\* Path.glob("cr*.html") on a file's name.
GlobMatch(name) ==
    /\ Len(name) >= Len(CR) + Len(HTML)
    /\ SubSeq(name, 1, Len(CR)) = CR
    /\ SubSeq(name, Len(name) - Len(HTML) + 1, Len(name)) = HTML

Glob(dir) == {f \in dir : GlobMatch(f)}

\* The directories args.data_dir may be when main starts.
LocalFiles == {Cr1Html, CrHtml}

\* The events of an index document's elements.
LinkElement(href) ==
    <<OpenTag("a", << <<"href", Some(href)>> >>), TextData(<<"a">>), CloseTag("a")>>
MainOpen == <<OpenTag("main", <<>>)>>
MainClose == <<CloseTag("main")>>

IndexElements ==
    << LinkElement(Cr2Html), MainOpen, LinkElement(Cr1Html),
       LinkElement(Cr2Html), LinkElement(CrHtml), MainClose >>

\* The index documents: the elements above, any of them left out.
IndexDocs ==
    { EventsOf(IndexElements, keep, Len(IndexElements)) :
        keep \in SUBSET (1..Len(IndexElements)) }

\* The transcript documents a file of args.data_dir may hold.
MainDocs == {ExampleDoc, <<>>}

\* Variant: every file of the index is downloaded.
ToDownload_All(available, present) == available

\* to_download = available_files - present_files
ToDownload(available, present) == available \ present

\* The render loop over parser.lines: what is written to out_f.
RECURSIVE RenderAll(_, _)
RenderAll(ls, names) ==
    IF ls = <<>> THEN <<>>
    ELSE WriteLine(Head(ls), names) \o RenderAll(Tail(ls), names)

NoMain ==
    /\ update = FALSE
    /\ files = {}
    /\ mpc = "none"
    /\ idoc = <<>>
    /\ available_files = {}
    /\ present_files = {}
    /\ to_download = {}
    /\ todo = {}
    /\ pending = {}
    /\ outputs = <<>>
    /\ log = <<>>

\* urllib.request.urlretrieve raises when the download fails.
URLError == "URLError"

\* `if args.update:` and, when it is set, the download of index.html and
\* the construction of the index parser.
MStart ==
    /\ mpc = "start" /\ raised = NoError
    /\ IF update
       THEN \/ /\ files' = files \cup {IndexHtml}
               /\ idoc' \in IndexDocs
               /\ mpc' = "index"
               /\ UNCHANGED <<pending, raised>>
            \/ /\ raised' = URLError
               /\ UNCHANGED <<files, idoc, mpc, pending>>
       ELSE /\ pending' = Glob(files)
            /\ mpc' = "process"
            /\ UNCHANGED <<files, idoc, raised>>
    /\ UNCHANGED <<update, available_files, present_files, to_download, todo,
                   outputs, log>>
    /\ UNCHANGED <<tvars, ivars, evars, pvars>>

\* index.feed(f.read()): the tokenizer reports the next event of index.html.
MIndexFeed ==
    /\ mpc = "index" /\ raised = NoError
    /\ idoc # <<>>
    /\ LET ev == Head(idoc) IN
       IF ev.op = "starttag" THEN IStartTagCall(ev.tag, ev.attrs)
       ELSE IF ev.op = "endtag" THEN IEndTagCall(ev.tag)
       ELSE IDataCall
    /\ idoc' = Tail(idoc)
    /\ UNCHANGED <<update, files, mpc, available_files, present_files,
                   to_download, todo, pending, outputs, log>>
    /\ UNCHANGED <<tvars, evars, pvars>>

\* The index is parsed: the three sets are computed.
MIndexDone ==
    /\ mpc = "index" /\ raised = NoError
    /\ idoc = <<>>
    /\ available_files' = transcript_files
    /\ present_files' = Glob(files)
    /\ to_download' = ToDownload(transcript_files, Glob(files))
    /\ todo' = to_download'
    /\ mpc' = "download"
    /\ UNCHANGED <<update, files, idoc, pending, outputs, log>>
    /\ UNCHANGED <<tvars, ivars, raised, evars, pvars>>

\* One turn of `for filename in to_download`.
MDownload ==
    /\ mpc = "download" /\ raised = NoError
    /\ \E filename \in todo :
          \/ /\ files' = files \cup {filename}
             /\ todo' = todo \ {filename}
             /\ log' = Append(log, [op |-> "fetch", name |-> filename])
             /\ UNCHANGED raised
          \/ /\ raised' = URLError
             /\ UNCHANGED <<files, todo, log>>
    /\ UNCHANGED <<update, mpc, idoc, available_files, present_files,
                   to_download, pending, outputs>>
    /\ UNCHANGED <<tvars, ivars, evars, pvars>>

\* The download loop is over: all_files = args.data_dir.glob("cr*.html").
MDownloadDone ==
    /\ mpc = "download" /\ raised = NoError
    /\ todo = {}
    /\ pending' = Glob(files)
    /\ mpc' = "process"
    /\ UNCHANGED <<update, files, idoc, available_files, present_files,
                   to_download, todo, outputs, log>>
    /\ UNCHANGED <<tvars, ivars, raised, evars, pvars>>

\* One turn of `for filepath in all_files`: a new parser is fed the file and
\* its lines are written to the output file.
MProcess ==
    /\ mpc = "process" /\ raised = NoError
    /\ \E filepath \in pending, content \in MainDocs :
          /\ pending' = pending \ {filepath}
          /\ outputs' = Append(outputs,
                [name |-> filepath,
                 text |-> RenderAll(ParseAlone(content), include_names)])
          /\ log' = Append(log, [op |-> "parse", name |-> filepath])
    /\ UNCHANGED <<update, files, mpc, idoc, available_files, present_files,
                   to_download, todo>>
    /\ UNCHANGED <<tvars, ivars, raised, evars, pvars>>

\* The processing loop is over.
MDone ==
    /\ mpc = "process" /\ raised = NoError
    /\ pending = {}
    /\ mpc' = "done"
    /\ UNCHANGED <<update, files, idoc, available_files, present_files,
                   to_download, todo, pending, outputs, log>>
    /\ UNCHANGED <<tvars, ivars, raised, evars, pvars>>

Init ==
    /\ CRTranscriptParser_init
    /\ consumed = <<>>
    /\ lastCall = "none"
    /\ frozen = 0
    /\ seenContainer = FALSE
    /\ sinceMarker = 2
    /\ lastTag = "none"
    /\ raised = NoError
    /\ doc = <<>>
    /\ input = <<>>
    /\ NoPair
    /\ NoMain
    /\ include_names \in BOOLEAN
    /\ pc = "feed"
    /\ idx = 1
    /\ out = <<>>
    /\ IndexInit

Next ==
    \/ TStartTag
    \/ TEndTag
    \/ TData
    \/ FeedDone
    \/ RenderStep
    \/ RenderDone

Spec == Init /\ [][Next]_vars

\* The index document's parse: index.feed(f.read()).
NextIndex ==
    \/ IStartTag
    \/ IEndTag
    \/ IData

SpecIndex == Init /\ [][NextIndex]_vars

\* The parse and rendering of one scripted transcript.
InitExample ==
    /\ CRTranscriptParser_init
    /\ consumed = <<>>
    /\ lastCall = "none"
    /\ frozen = 0
    /\ seenContainer = FALSE
    /\ sinceMarker = 2
    /\ lastTag = "none"
    /\ raised = NoError
    /\ input \in ExampleDocs
    /\ doc = input
    /\ NoPair
    /\ NoMain
    /\ include_names \in BOOLEAN
    /\ pc = "feed"
    /\ idx = 1
    /\ out = <<>>
    /\ IndexInit

NextExample ==
    \/ XFeed
    \/ FeedDone
    \/ RenderStep
    \/ RenderDone

SpecExample == InitExample /\ [][NextExample]_vars

\* Two parses whose events interleave in any order.
InitPair ==
    /\ CRTranscriptParser_init
    /\ consumed = <<>>
    /\ lastCall = "none"
    /\ frozen = 0
    /\ seenContainer = FALSE
    /\ sinceMarker = 2
    /\ lastTag = "none"
    /\ raised = NoError
    /\ doc = <<>>
    /\ input = <<>>
    /\ PairInit
    /\ NoMain
    /\ include_names = TRUE
    /\ pc = "feed"
    /\ idx = 1
    /\ out = <<>>
    /\ IndexInit

NextPair == \E p \in Parsers : PFeed(p)

SpecPair == InitPair /\ [][NextPair]_vars

\* One run of main().
InitMain ==
    /\ CRTranscriptParser_init
    /\ consumed = <<>>
    /\ lastCall = "none"
    /\ frozen = 0
    /\ seenContainer = FALSE
    /\ sinceMarker = 2
    /\ lastTag = "none"
    /\ raised = NoError
    /\ doc = <<>>
    /\ input = <<>>
    /\ NoPair
    /\ include_names \in BOOLEAN
    /\ pc = "feed"
    /\ idx = 1
    /\ out = <<>>
    /\ IndexInit
    /\ update \in BOOLEAN
    /\ files \in SUBSET LocalFiles
    /\ mpc = "start"
    /\ idoc = <<>>
    /\ available_files = {}
    /\ present_files = {}
    /\ to_download = {}
    /\ todo = {}
    /\ pending = {}
    /\ outputs = <<>>
    /\ log = <<>>

NextMain ==
    \/ MStart
    \/ MIndexFeed
    \/ MIndexDone
    \/ MDownload
    \/ MDownloadDone
    \/ MProcess
    \/ MDone

SpecMain == InitMain /\ [][NextMain]_vars

\* One parse by either extractor: the transcript callbacks while the index
\* parser is untouched, or the index callbacks while the transcript parser is.
NextEither ==
    \/ (indexCall = NoCall /\ Next)
    \/ (lastCall = "none" /\ pc = "feed" /\ NextIndex)

SpecEither == Init /\ [][NextEither]_vars


\* =================================================== properties: transcript

\* The number of Name events among the first k consumed events: the position
\* in lines of the dict the k-th event went to.
NameCount(k) == Cardinality({j \in 1..k : consumed[j].field = "name"})

IsName(k) == k \in 1..Len(consumed) /\ consumed[k].field = "name"
IsText(k) == k \in 1..Len(consumed) /\ consumed[k].field = "text"

\* C1: inside the lines region, a Name event followed by exactly two Text
\* events before the next Name event leaves one dict for that speaker, whose
\* text is the first fragment, one space, the second fragment (both stripped).
C1_ContinuationMerge ==
    \A k \in 1..Len(consumed) :
        (/\ IsName(k) /\ IsText(k + 1) /\ IsText(k + 2)
         /\ (k + 3 > Len(consumed) \/ IsName(k + 3)))
        => /\ NameCount(k) \in 1..Len(lines)
           /\ NameCount(k + 2) = NameCount(k)
           /\ Len(lines) = NameCount(Len(consumed))
           /\ lines[NameCount(k)] =
                 [name |-> strip(consumed[k].data),
                  text |-> strip(consumed[k + 1].data) \o <<" ">>
                           \o strip(consumed[k + 2].data)]

C1_Witness ==
    /\ Len(consumed) = 3
    /\ IsName(1) /\ IsText(2) /\ IsText(3)
    /\ lines = <<[name |-> <<"a">>, text |-> <<"a", " ", "b">>]>>

\* The stripped data of the Name events of a consumed sequence, in order.
RECURSIVE NamesOf(_)
NamesOf(evs) ==
    IF evs = <<>> THEN <<>>
    ELSE IF Head(evs).field = "name"
    THEN <<strip(Head(evs).data)>> \o NamesOf(Tail(evs))
    ELSE NamesOf(Tail(evs))

SpeakersInOrder ==
    /\ Len(lines) = Len(NamesOf(consumed))
    /\ \A i \in 1..Len(lines) :
          "name" \in DOMAIN lines[i] /\ lines[i]["name"] = NamesOf(consumed)[i]

RecordsStay ==
    /\ Len(lines') >= Len(lines)
    /\ \A i \in 1..Len(lines) : lines'[i]["name"] = lines[i]["name"]

\* C2: the speakers of lines, first to last, are the stripped data of the
\* consumed Name events in the order they occurred; no step removes a dict,
\* moves it or changes its speaker.
C2_NarrativeOrder == []SpeakersInOrder /\ [][RecordsStay]_vars

C2_Witness ==
    /\ Len(lines) = 3
    /\ lines[1]["name"] = <<"b">> /\ lines[2]["name"] = <<"a">>
    /\ lines[3]["name"] = <<>>
    /\ "text" \in DOMAIN lines[3]

\* C3 as claimed: once a <strong> open-tag has been reported, no later step
\* changes a dict that was in lines at that tag.
C3_FrozenAtSpeakerTag ==
    [][\A i \in 1..frozen :
          i <= Len(lines) => (i <= Len(lines') /\ lines'[i] = lines[i])]_vars

\* C3, amended: a dict is not changed once a later dict has been appended,
\* that is once the next speaker's name has been consumed; only the last
\* dict of lines can change.
C3_FrozenOnceFollowed ==
    [][/\ Len(lines') >= Len(lines)
       /\ \A i \in 1..(Len(lines) - 1) : lines'[i] = lines[i]]_vars

C3_Witness ==
    /\ Len(lines) = 2
    /\ frozen = 1
    /\ IsName(1) /\ IsName(2) /\ IsText(3)
    /\ "text" \notin DOMAIN lines[1]
    /\ "text" \in DOMAIN lines[2]

\* C4: two consecutive Name events with no Text event between them leave two
\* dicts, the first with its speaker and no text (whatever follows), the
\* second with its speaker (and no text while no Text event has followed).
C4_ConsecutiveNames ==
    \A k \in 1..Len(consumed) :
        (IsName(k) /\ IsName(k + 1))
        => /\ NameCount(k + 1) = NameCount(k) + 1
           /\ NameCount(k + 1) \in 1..Len(lines)
           /\ lines[NameCount(k)] = [name |-> strip(consumed[k].data)]
           /\ lines[NameCount(k + 1)]["name"] = strip(consumed[k + 1].data)
           /\ (k + 1 = Len(consumed)
               => lines[NameCount(k + 1)] = [name |-> strip(consumed[k + 1].data)])

C4_Witness ==
    /\ Len(consumed) = 2
    /\ IsName(1) /\ IsName(2)
    /\ lines = <<[name |-> <<"a">>], [name |-> <<"b">>]>>

\* C5: while every consumed event is a Text event (none had a speaker to go
\* to), lines is empty: the text is dropped and the parse goes on.
C5_TextBeforeName ==
    (\A k \in 1..Len(consumed) : IsText(k)) => lines = <<>>

C5_Witness ==
    /\ Len(consumed) = 2
    /\ IsText(1) /\ IsText(2)
    /\ lines = <<>>
    /\ pc = "done"

\* C6: while no <div id="lines"> open-tag has been reported, lines is empty
\* and nothing is rendered, whatever tags and text-data have been reported.
C6_NoContainer ==
    ~seenContainer => (lines = <<>> /\ out = <<>>)

C6_Witness ==
    /\ ~seenContainer
    /\ sinceMarker = 1
    /\ lastCall = "data"
    /\ pc = "done"

\* C7: after a text-data call process is None, and stays None until the
\* next <strong>/<dd> open-tag; a further text-data call before that tag
\* changes nothing of the parser.
C7_PendingReset ==
    /\ [](lastCall = "data" => process = None)
    /\ [](sinceMarker >= 1 => process = None)
    /\ [][(sinceMarker >= 1 /\ lastCall' = "data" /\ pc' = "feed")
            => UNCHANGED <<lines, in_lines, process>>]_vars

C7_Witness ==
    /\ sinceMarker = 2
    /\ lastCall = "data"
    /\ Len(consumed) = 2
    /\ IsName(1) /\ IsText(2)
    /\ lines = <<[name |-> <<"a">>, text |-> <<"b">>]>>

\* ======================================================== properties: index

StartsWith(s, p) == Len(s) >= Len(p) /\ SubSeq(s, 1, Len(p)) = p
EndsWith(s, p) == Len(s) >= Len(p) /\ SubSeq(s, Len(s) - Len(p) + 1, Len(s)) = p

\* The step is a call of handle_starttag for an <a> tag.
LinkCall == indexCall'.op = "starttag" /\ indexCall'.tag = "a"

\* The link's target: the value of its (last) href attribute, if it has one.
Target == AttrGet(indexCall'.attrs, "href")

\* C8: an <a> open-tag reported while in_main is false adds nothing to
\* transcript_files, whatever its href; and transcript_files only grows.
C8_OutsideMainIgnored ==
    [][/\ (LinkCall /\ ~in_main) => transcript_files' = transcript_files
       /\ transcript_files \subseteq transcript_files']_vars

\* A matching link was collected inside main, and the same document's
\* matching link after </main> has just been reported and is not collected.
C8_Witness ==
    /\ ~in_main
    /\ indexCall = [op |-> "starttag", tag |-> "a",
                    attrs |-> << <<"href", Some(CR \o <<"2">> \o HTML)>> >>]
    /\ transcript_files = {CR \o <<"1">> \o HTML}

\* C9 as claimed: inside main, a link's target is added exactly when it is
\* present, starts with "cr" and ends with ".html".
C9_PrefixAndExtension ==
    [][(LinkCall /\ in_main)
         => transcript_files' =
               transcript_files \cup
               (IF Target # Nothing /\ StartsWith(Target[1], CR)
                                     /\ EndsWith(Target[1], HTML)
                THEN {Target[1]} ELSE {})]_vars

\* The pattern in words: "cr", then at least one character, none of them a
\* newline, then ".html", then nothing or one newline.
FitsPattern(t) ==
    LET body == IF EndsWith(t, <<"\n">>) THEN SubSeq(t, 1, Len(t) - 1) ELSE t IN
    /\ StartsWith(body, CR)
    /\ EndsWith(body, HTML)
    /\ Len(body) > Len(CR) + Len(HTML)
    /\ \A k \in (Len(CR) + 1)..(Len(body) - Len(HTML)) : body[k] # "\n"

\* C9, amended: inside main, a link's target is added exactly when it is
\* present and fits the pattern above; otherwise the set is unchanged.
C9_LinkFilter ==
    [][(LinkCall /\ in_main)
         => transcript_files' =
               transcript_files \cup
               (IF Target # Nothing /\ FitsPattern(Target[1])
                THEN {Target[1]} ELSE {})]_vars

\* Inside main "cr1.html" was collected and the link just reported,
\* "cr.html", was not.
C9_Witness ==
    /\ in_main
    /\ indexCall = [op |-> "starttag", tag |-> "a",
                    attrs |-> << <<"href", Some(CR \o HTML)>> >>]
    /\ transcript_files = {CR \o <<"1">> \o HTML}

\* ==================================================== properties: rendering

\* What the claim says a dict emits with names enabled.
Emits(line) ==
    IF "text" \in DOMAIN line
    THEN <<"*", "*">> \o line["name"] \o <<"*", "*", ":", " ">>
         \o line["text"] \o <<"\n">>
    ELSE <<"*", "*">> \o line["name"] \o <<"*", "*", ":", " ">>

RECURSIVE EmitsAll(_, _)
EmitsAll(ls, n) ==
    IF n = 0 THEN <<>> ELSE EmitsAll(ls, n - 1) \o Emits(ls[n])

\* C10: with names enabled, what has been written after the loop has passed
\* n dicts is the concatenation, in list order, of what each emits: the
\* speaker prefix, then the text and one line break if the dict has a text.
C10_Rendering ==
    (include_names /\ pc \in {"render", "done"})
        => out = EmitsAll(lines, idx - 1)

C10_Witness ==
    /\ include_names
    /\ pc = "done"
    /\ lines = <<[name |-> <<"a">>], [name |-> <<"b">>, text |-> <<"a">>]>>
    /\ out = <<"*", "*", "a", "*", "*", ":", " ",
               "*", "*", "b", "*", "*", ":", " ", "a", "\n">>

\* What the claim says a dict emits with names excluded.
EmitsText(line) ==
    IF "text" \in DOMAIN line THEN line["text"] \o <<"\n">> ELSE <<>>

RECURSIVE EmitsTextAll(_, _)
EmitsTextAll(ls, n) ==
    IF n = 0 THEN <<>> ELSE EmitsTextAll(ls, n - 1) \o EmitsText(ls[n])

\* C11: with names excluded no speaker prefix is written: what has been
\* written is the texts of the dicts passed so far, each followed by a line
\* break, and a dict with no text contributes nothing.
C11_NamesExcluded ==
    (~include_names /\ pc \in {"render", "done"})
        => /\ out = EmitsTextAll(lines, idx - 1)
           /\ \A k \in 1..Len(out) : out[k] # "*"

C11_Witness ==
    /\ ~include_names
    /\ pc = "done"
    /\ lines = <<[name |-> <<"a">>], [name |-> <<"b">>, text |-> <<"a">>]>>
    /\ out = <<"a", "\n">>

\* ================================================ properties: both parsers

ParserUnchanged == UNCHANGED <<lines, in_lines, process>>
IndexUnchanged == UNCHANGED <<in_main, transcript_files>>

\* The step is a call of a CRIndexParser handler.
IndexCalled == indexCall' # indexCall

\* C13: no handler of either parser, and no iteration of the rendering loop,
\* raises; and a call that matches nothing changes nothing: a tag that is not
\* the container, <strong> or <dd>, a marker outside the lines region, a
\* close-tag, text-data with no pending field or no dict to go to; for the
\* index a tag other than <main> and <a>, a close-tag other than </main>,
\* text-data, and a link with no href or outside main.
C13_NoError ==
    /\ [](raised = NoError)
    /\ [][/\ (lastCall' = "starttag" /\ lastTag' = "other") => ParserUnchanged
          /\ (lastCall' = "starttag" /\ lastTag' \in {"strong", "dd"} /\ ~in_lines)
                => ParserUnchanged
          /\ lastCall' = "endtag" => ParserUnchanged
          /\ (lastCall' = "data" /\ pc' = "feed" /\ process = None)
                => ParserUnchanged
          /\ (lastCall' = "data" /\ pc' = "feed" /\ process = "text" /\ lines = <<>>)
                => lines' = <<>>
          /\ (IndexCalled /\ indexCall'.op = "starttag" /\ indexCall'.tag = "p")
                => IndexUnchanged
          /\ (IndexCalled /\ LinkCall /\ (Target = Nothing \/ ~in_main))
                => IndexUnchanged
          /\ (IndexCalled /\ indexCall'.op = "endtag" /\ indexCall'.tag # "main")
                => IndexUnchanged
          /\ (IndexCalled /\ indexCall'.op = "data") => IndexUnchanged]_vars

\* Dialogue text-data arrived with no dict in lines and the parse went on
\* to the end of rendering.
C13_Witness ==
    /\ Len(consumed) = 1 /\ IsText(1)
    /\ lines = <<>>
    /\ pc = "done"
    /\ raised = NoError

\* C16: inside the lines region <strong> sets process to "name" and <dd> to
\* "text", whatever it was; every other open-tag, a repeated container
\* open-tag included, and every close-tag leaves process, in_lines and lines
\* as they were; process goes back to None only in a text-data call.
C16_PendingFrame ==
    [][/\ (in_lines /\ lastCall' = "starttag" /\ lastTag' = "strong")
             => (process' = "name" /\ UNCHANGED <<lines, in_lines>>)
       /\ (in_lines /\ lastCall' = "starttag" /\ lastTag' = "dd")
             => (process' = "text" /\ UNCHANGED <<lines, in_lines>>)
       /\ (in_lines /\ lastCall' = "starttag" /\ lastTag' \in {"other", "div#lines"})
             => ParserUnchanged
       /\ lastCall' = "endtag" => ParserUnchanged
       /\ (process # None /\ process' = None) => lastCall' = "data"]_vars

\* A <dd> open-tag arrived while a <strong> was pending, and won.
C16_Witness ==
    /\ in_lines
    /\ frozen = 1 /\ Len(lines) = 1
    /\ lastCall = "starttag" /\ lastTag = "dd"
    /\ sinceMarker = 0
    /\ process = "text"
    /\ Len(consumed) = 1

\* The text-data the step consumed into a field strips to the empty string.
ConsumesBlank ==
    /\ Len(consumed') = Len(consumed) + 1
    /\ strip(consumed'[Len(consumed')].data) = <<>>

\* C17: whitespace-only text-data consumed as a name appends a dict whose
\* speaker is the empty string; consumed as a text it sets the last dict's
\* text to the empty string if it had none; either way process is reset.
C17_BlankData ==
    [][ConsumesBlank
         => /\ process' = None
            /\ process = "name" => lines' = Append(lines, [name |-> <<>>])
            /\ (process = "text" /\ lines # <<>>
                /\ "text" \notin DOMAIN lines[Len(lines)])
                  => /\ lines' = [lines EXCEPT ![Len(lines)] =
                                     [name |-> lines[Len(lines)]["name"],
                                      text |-> <<>>]]
                     /\ lines'[Len(lines)] # lines[Len(lines)]]_vars

C17_Witness ==
    /\ lines = <<[name |-> <<"a">>, text |-> <<>>], [name |-> <<>>]>>
    /\ process = None
    /\ lastCall = "data"

\* C19: outside the lines region process is None and lines is empty; and
\* in_lines, once set, stays set, the container's close-tag included, so a
\* <strong> or <dd> after it still sets process.
C19_OutsideAndMonotone ==
    /\ [](~in_lines => (process = None /\ lines = <<>>))
    /\ [][in_lines => in_lines']_vars
    /\ [][(in_lines /\ lastCall' = "starttag" /\ lastTag' = "strong")
            => process' = "name"]_vars

\* Right after a </div> the flag is still set.
C19_Witness ==
    /\ in_lines
    /\ lastCall = "endtag" /\ lastTag = "/div"
    /\ Len(lines) = 1

\* The last dict of lines but for its text.
SansText(d) == [k \in (DOMAIN d) \ {"text"} |-> d[k]]

\* C20: every dict of lines has a name; lines has one dict per text-data
\* call consumed as a name; and a step changes at most the text of the last
\* dict (or appends a dict).
C20_RecordShape ==
    /\ [](\A i \in 1..Len(lines) : "name" \in DOMAIN lines[i])
    /\ [](Len(lines) = NameCount(Len(consumed)))
    /\ [][/\ Len(lines') \in {Len(lines), Len(lines) + 1}
          /\ \A i \in 1..(Len(lines) - 1) : lines'[i] = lines[i]
          /\ lines # <<>> => SansText(lines'[Len(lines)]) = SansText(lines[Len(lines)])]_vars

\* Two <strong> open-tags and a third pending, for two dicts.
C20_Witness ==
    /\ Len(lines) = 2
    /\ lines[1] = lines[2]
    /\ frozen = 2
    /\ process = "name"
    /\ lastTag = "strong"

\* C18: in_main is true exactly when the latest main tag was an open-tag
\* (false when there was none): no depth is kept, so after the close-tag of
\* an inner <main> a link still inside the outer one is not collected.
C18_LastWriterWins ==
    /\ [](in_main <=> lastMain = "open")
    /\ [][(LinkCall /\ lastMain = "close") => IndexUnchanged]_vars

\* <main><a href="cr1.html"><main></main><a href="cr2.html">: the second
\* link is inside the outer <main> and is not collected.
C18_Witness ==
    /\ mainDepth = 1
    /\ lastMain = "close"
    /\ ~in_main
    /\ indexCall = [op |-> "starttag", tag |-> "a",
                    attrs |-> << <<"href", Some(CR \o <<"2">> \o HTML)>> >>]
    /\ transcript_files = {CR \o <<"1">> \o HTML}

\* =================================================== properties: the example

\* C12: the example document yields the two dicts {Matt, "Welcome back."}
\* and {Laura, "Thanks! Let's go."}, and with names enabled the rendering
\* is "**Matt**: Welcome back.\n**Laura**: Thanks! Let's go.\n".
C12_Example ==
    (input = ExampleDoc /\ pc = "done")
        => /\ lines = << [name |-> Matt, text |-> WelcomeBack],
                         [name |-> Laura, text |-> <<"T", "h", "a", "n", "k", "s", "!", " ", "L", "e", "t", "'", "s", " ", "g", "o", ".">>] >>
           /\ include_names
                => out = <<"*", "*", "M", "a", "t", "t", "*", "*", ":", " ", "W", "e", "l", "c", "o", "m", "e", " ", "b", "a", "c", "k", ".", "\n", "*", "*", "L", "a", "u", "r", "a", "*", "*", ":", " ", "T", "h", "a", "n", "k", "s", "!", " ", "L", "e", "t", "'", "s", " ", "g", "o", ".", "\n">>

C12_Witness ==
    /\ input = ExampleDoc
    /\ Len(input) = 16
    /\ pc = "done"
    /\ include_names
    /\ Len(lines) = 2
    /\ Len(out) = 53

\* ====================================================== properties: a pair

\* The events already reported to parser p.
Fed(p) == SubSeq(inputs[p], 1, Len(inputs[p]) - Len(docs[p]))

\* C15: however the events of two parses interleave, the list of each
\* parser is the one it has after the same events when it runs alone, and
\* the parsers start with in_lines false, process None and an empty list.
C15_Independent ==
    /\ \A p \in Parsers : heap[objs[p].lines] = ParseAlone(Fed(p))
    /\ (\A p \in Parsers : Fed(p) = <<>>)
          => \A p \in Parsers :
                /\ ~objs[p].in_lines
                /\ objs[p].process = None
                /\ heap[objs[p].lines] = <<>>

\* Both parses are over, one of the example and one of the example without
\* Matt's line: two records for the first parser, one for the second.
C15_Witness ==
    /\ inputs[1] = ExampleDoc
    /\ Len(inputs[2]) = 10
    /\ docs[1] = <<>> /\ docs[2] = <<>>
    /\ Len(heap[objs[1].lines]) = 2
    /\ Len(heap[objs[2].lines]) = 1

\* ==================================================== properties: driver

\* The filenames downloaded, and the files parsed, so far.
Fetches == {i \in 1..Len(log) : log[i].op = "fetch"}
Parses == {i \in 1..Len(log) : log[i].op = "parse"}
Fetched == {log[i].name : i \in Fetches}
TimesParsed(f) == Cardinality({i \in Parses : log[i].name = f})

\* C14: a transcript is downloaded only if its filename is in the index
\* parser's set and was not among the directory's cr*.html files, and once
\* the download loop is over the downloaded set is the index set minus the
\* local set; without --update nothing is downloaded; no download follows a
\* parse; and when main ends every cr*.html file of the directory has been
\* parsed exactly once, and nothing else has.
C14_DownloadRule ==
    /\ \A i \in Fetches :
          /\ log[i].name \in transcript_files
          /\ log[i].name \notin present_files
          /\ \A j \in Fetches : log[j].name = log[i].name => j = i
    /\ (update /\ mpc \in {"process", "done"})
          => /\ available_files = transcript_files
             /\ present_files = Glob(files \ Fetched)
             /\ Fetched = transcript_files \ present_files
    /\ ~update => Fetches = {}
    /\ \A i \in Parses, j \in Fetches : j < i
    /\ \A i \in Parses : log[i].name \in Glob(files) /\ TimesParsed(log[i].name) = 1
    /\ mpc = "done" => \A f \in Glob(files) : TimesParsed(f) = 1

\* main has ended after an update: the index listed cr1.html and cr2.html,
\* cr1.html and cr.html were in the directory, only cr2.html was downloaded,
\* and the three files were parsed.
C14_Witness ==
    /\ update
    /\ mpc = "done"
    /\ transcript_files = {Cr1Html, Cr2Html}
    /\ present_files = {Cr1Html, CrHtml}
    /\ Fetched = {Cr2Html}
    /\ Cardinality(Parses) = 3
    /\ Len(outputs) = 3

====
